---- MODULE Spec2Model ----
(***************************************************************************)
(* Frame reaction policy of final-soccerbot.ipynb: the execute callback,   *)
(* its helpers detection_center / norm / closest_detection, the notebook   *)
(* cells that call, connect and disconnect it, and the camera thread that  *)
(* delivers frames to it.                                                  *)
(*                                                                         *)
(* Units.  Probabilities are in hundredths (0.4 is 40).  Bounding-box      *)
(* coordinates are in hundredths (0.45 is 45).  A center offset is kept in *)
(* two-hundredths (CenterScale), so that (b0 + b2) / 2.0 - 0.1 is the      *)
(* exact integer (b0 + b2) - 20.  Motor speeds are in thousandths          *)
(* (0.2 is 200).  Pauses are in tenths of a second.                        *)
(*                                                                         *)
(* Threads.  "main" is the notebook kernel, which runs the cells one after *)
(* the other, top to bottom; "cam" is the camera's capture thread, which   *)
(* assigns camera.value and thereby calls every observer synchronously.    *)
(***************************************************************************)
EXTENDS Integers, Sequences, FiniteSets, TLC

VARIABLES
    cell,       \* how far the user has run the notebook's cells
    observers,  \* number of times execute is registered on camera 'value'
    detstatus,  \* global tracking flag
    lookcount,  \* global scan counter
    motor,      \* last command given to the robot
    pc,         \* per thread: position inside execute, or "idle"
    ip,         \* per thread: instruction index inside the hit / steer sequence
    prob,       \* per thread: (blocked, free, hit) of the frame
    rule,       \* per thread: which arm of the if/elif chain was taken
    entry,      \* per thread: detstatus and lookcount when execute was entered
    dets,       \* per thread: detections[0] returned by model(image), while in use
    det,        \* per thread: the detection chosen by closest_detection, or None
    center,     \* per thread: center computed in the steering arm
    log,        \* per thread: what this invocation has done so far
    speed_widget,     \* value of the 'speed' slider
    label_widget,     \* value of the 'tracked label' box
    turn_gain_widget, \* value of the 'turn gain' slider
    ssd               \* a call of postprocess: its arguments and its result

vars == <<cell, observers, detstatus, lookcount, motor, pc, ip, prob, rule,
          entry, dets, det, center, log, speed_widget, label_widget,
          turn_gain_widget, ssd>>

\* the two widgets execute never reads
widgets == <<label_widget, turn_gain_widget>>

Threads == {"main", "cam"}

-----------------------------------------------------------------------------
(* Bounds and inputs *)

MaxDets == 2

Box1 == <<10, 10, 30, 30>>
Box2 == <<45, 45, 55, 55>>

Detection(l, b) == [label |-> l, bbox |-> b]

DetKinds ==
    { Detection(37, Box1), Detection(53, Box1), Detection(37, Box2),
      Detection(1, Box2) }

None == Detection(0, <<0, 0, 0, 0>>)

DetLists == UNION { [1..n -> DetKinds] : n \in 0..MaxDets }

P(b, f, h) == [blocked |-> b, free |-> f, hit |-> h]

Probs ==
    { P(5, 85, 10), P(55, 45, 0), P(0, 45, 55),
      P(70, 10, 20), P(10, 10, 80), P(35, 35, 30) }

\* no call of postprocess under way
NoSsd ==
    [output |-> <<>>, conf_th |-> 0, done |-> FALSE, boxes |-> <<>>,
     confs |-> <<>>, clss |-> <<>>]

NoProb == P(0, 0, 0)
NoCenter == <<0, 0>>
NoEntry == [detstatus |-> 0, lookcount |-> 0]

-----------------------------------------------------------------------------
(* Program constants *)

FreeTh == 40
BlockedTh == 50
HitTh == 50
LookMaxEleven == 10 + 1

LookMax == 10
CenterScale == 200
CenterRef == 20
TurnG == 200
SpeedG == 500
TargetLabelsWide == {1, 37, 53, 55}

TargetLabels == {37, 53, 55}

-----------------------------------------------------------------------------
(* Events of one invocation *)

Ev(o, a, b) == [op |-> o, a |-> a, b |-> b]
Left(s) == Ev("left", s, 0)
Forward(s) == Ev("forward", s, 0)
Stop == Ev("stop", 0, 0)
SetMotors(l, r) == Ev("set_motors", l, r)
Sleep(d) == Ev("sleep", d, 0)
Unobserve == Ev("unobserve", 0, 0)
ObserveEv == Ev("observe", 0, 0)
DetectEv == Ev("detect", 0, 0)
MotorPlaceholder == Ev("steer", 0, 0)

MotorOps == {"left", "forward", "stop", "set_motors"}
IsMotor(e) == e.op \in MotorOps
Cmds(l) == SelectSeq(l, IsMotor)

-----------------------------------------------------------------------------
(* Helpers of the notebook *)

detection_center(detection) ==
    LET bbox == detection.bbox
    IN  << (bbox[1] + bbox[3]) - CenterRef, (bbox[2] + bbox[4]) - CenterRef >>

\* np.sqrt is monotone: the square of the length orders vectors as the length does
norm(vec) == vec[1] * vec[1] + vec[2] * vec[2]

CloserLe(d, c) == norm(detection_center(d)) <= norm(detection_center(c))

Closer(d, c) == norm(detection_center(d)) < norm(detection_center(c))

RECURSIVE ClosestFrom(_, _, _)
ClosestFrom(detections, i, best) ==
    IF i > Len(detections) THEN best
    ELSE ClosestFrom(detections, i + 1,
            IF best = 0 THEN i
            ELSE IF Closer(detections[i], detections[best]) THEN i
            ELSE best)

closest_detection(detections) == ClosestFrom(detections, 1, 0)

MatchingAll(ds) == ds

matching_detections(ds) == SelectSeq(ds, LAMBDA d : d.label \in TargetLabels)

\* traitlets registers a handler only if it is not registered yet
Observe(n) == IF n = 0 THEN 1 ELSE n

-----------------------------------------------------------------------------
(* The if / elif chain of execute *)

RuleBlockedFirst(p, ds) ==
    IF p.blocked > BlockedTh THEN "blocked"
    ELSE IF p.free > FreeTh /\ ds = 0 THEN "search"
    ELSE IF p.free > FreeTh /\ ds = 1 THEN "tracked"
    ELSE IF p.hit > HitTh THEN "hit"
    ELSE "default"

RuleIgnoresFlag(p, ds) ==
    IF p.free > FreeTh THEN "search"
    ELSE IF p.blocked > BlockedTh THEN "blocked"
    ELSE IF p.hit > HitTh THEN "hit"
    ELSE "default"

Rule(p, ds) ==
    IF p.free > FreeTh /\ ds = 0 THEN "search"
    ELSE IF p.free > FreeTh /\ ds = 1 THEN "tracked"
    ELSE IF p.blocked > BlockedTh THEN "blocked"
    ELSE IF p.hit > HitTh THEN "hit"
    ELSE "default"

AfterRuleNoReturn(r) ==
    CASE r = "hit" -> "hit"
      [] OTHER -> "detect"

AfterRuleBlockedReturns(r) ==
    CASE r \in {"tracked", "blocked"} -> "ret"
      [] r = "hit" -> "hit"
      [] OTHER -> "detect"

\* where control goes after the arm: only the tracked arm returns
AfterRule(r) ==
    CASE r = "tracked" -> "ret"
      [] r = "hit" -> "hit"
      [] OTHER -> "detect"

HitProgramEarlyAttach ==
    << Unobserve, Sleep(10), Stop, Sleep(5), Forward(400), Sleep(5),
       ObserveEv, Stop, Sleep(20) >>

HitProgramNoPulsePause ==
    << Unobserve, Sleep(10), Stop, Sleep(5), Forward(400), Stop, Sleep(20),
       ObserveEv >>

\* the statements of the hit arm, up to camera.observe
HitProgram ==
    << Unobserve, Sleep(10), Stop, Sleep(5), Forward(400), Sleep(5), Stop,
       Sleep(20), ObserveEv >>

SteerProgramNoAttach ==
    << MotorPlaceholder, Sleep(10), Stop, Unobserve, Sleep(20) >>

\* the statements of the steering arm from set_motors on, up to camera.observe
SteerProgram ==
    << MotorPlaceholder, Sleep(10), Stop, Unobserve, Sleep(20), ObserveEv >>

Program(name) == IF name = "hit" THEN HitProgram ELSE SteerProgram

AfterProgramFallThrough(name) == IF name = "hit" THEN "detect" ELSE "ret"

\* after camera.observe both arms only print, update the widget and return
AfterProgram(name) == "ret"

SteerCrossed(c) ==
    SetMotors(SpeedG - (TurnG * c[1]) \div CenterScale,
              SpeedG + (TurnG * c[1]) \div CenterScale)

\* the set_motors call of the steering arm
Steer(c) ==
    SetMotors(SpeedG + (TurnG * c[1]) \div CenterScale,
              SpeedG - (TurnG * c[1]) \div CenterScale)

-----------------------------------------------------------------------------
Init ==
    /\ cell = "defined"
    /\ observers = 0
    /\ detstatus = 0
    /\ lookcount = 0
    /\ motor = Stop
    /\ pc = [t \in Threads |-> "idle"]
    /\ ip = [t \in Threads |-> 0]
    /\ prob = [t \in Threads |-> NoProb]
    /\ rule = [t \in Threads |-> "none"]
    /\ entry = [t \in Threads |-> NoEntry]
    /\ dets = [t \in Threads |-> <<>>]
    /\ det = [t \in Threads |-> None]
    /\ center = [t \in Threads |-> NoCenter]
    /\ log = [t \in Threads |-> <<>>]
    /\ speed_widget = 400
    /\ label_widget = 1
    /\ turn_gain_widget = 800
    /\ ssd = NoSsd

\* execute is entered with a frame: the classifier yields its probabilities
Enter(t) ==
    /\ pc[t] = "idle"
    /\ \E p \in Probs : prob' = [prob EXCEPT ![t] = p]
    /\ pc' = [pc EXCEPT ![t] = "branch"]
    /\ entry' = [entry EXCEPT ![t] =
                    [detstatus |-> detstatus, lookcount |-> lookcount]]
    /\ log' = [log EXCEPT ![t] = <<>>]
    /\ UNCHANGED <<ssd, widgets, speed_widget, observers, detstatus, lookcount, motor, ip, rule, dets,
                   det, center>>

\* execute({'new': camera.value}) at the end of the defining cell
DirectCall ==
    /\ cell = "defined"
    /\ cell' = "called"
    /\ Enter("main")

\* the camera thread assigns camera.value and calls the observer
Deliver ==
    /\ observers > 0
    /\ Enter("cam")
    /\ UNCHANGED cell

BranchCmd(r) ==
    CASE r = "search" -> IF lookcount < LookMax THEN <<Left(100)>>
                         ELSE <<Forward(200)>>
      [] r = "tracked" -> <<Forward(200)>>
      [] r = "blocked" -> <<Left(200)>>
      [] OTHER -> <<>>

\* The chain is one step: the only invocation that can overlap this one is past
\* its camera.observe (OverlapOnlyAtReturn) and writes no global any more.
Branch(t) ==
    /\ pc[t] = "branch"
    /\ LET r == Rule(prob[t], detstatus)
           c == BranchCmd(r)
       IN  /\ rule' = [rule EXCEPT ![t] = r]
           /\ log' = [log EXCEPT ![t] = log[t] \o c]
           /\ motor' = IF c = <<>> THEN motor ELSE c[1]
           /\ lookcount' = IF r = "search"
                           THEN (IF lookcount < LookMax THEN lookcount + 1 ELSE 0)
                           ELSE lookcount
           /\ pc' = [pc EXCEPT ![t] = AfterRule(r)]
           /\ ip' = [ip EXCEPT ![t] = IF AfterRule(r) = "hit" THEN 1 ELSE 0]
    /\ UNCHANGED <<ssd, widgets, speed_widget, cell, observers, detstatus, prob, entry, dets, det,
                   center>>

ChosenNeverNone(ds) ==
    LET m == matching_detections(ds)
        i == closest_detection(m)
    IN  IF i = 0 THEN Detection(37, Box1) ELSE m[i]

\* the element closest_detection returns, None for the empty list
Chosen(ds) ==
    LET m == matching_detections(ds)
        i == closest_detection(m)
    IN  IF i = 0 THEN None ELSE m[i]

\* model(image), the label filter and closest_detection
Detect(t) ==
    /\ pc[t] = "detect"
    /\ \E ds \in DetLists :
          /\ dets' = [dets EXCEPT ![t] = ds]
          /\ det' = [det EXCEPT ![t] = Chosen(ds)]
    /\ log' = [log EXCEPT ![t] = Append(log[t], DetectEv)]
    /\ pc' = [pc EXCEPT ![t] = "decide"]
    /\ UNCHANGED <<ssd, widgets, speed_widget, cell, observers, detstatus, lookcount, motor, ip, prob,
                   rule, entry, center>>

DecideResetsCount(t) ==
    /\ pc[t] = "decide"
    /\ IF det[t] = None
       THEN /\ detstatus' = 0
            /\ motor' = Forward(200)
            /\ log' = [log EXCEPT ![t] = Append(log[t], Forward(200))]
            /\ pc' = [pc EXCEPT ![t] = "ret"]
            /\ UNCHANGED <<ip, center, lookcount>>
       ELSE /\ detstatus' = 1
            /\ lookcount' = 0
            /\ center' = [center EXCEPT ![t] = detection_center(det[t])]
            /\ pc' = [pc EXCEPT ![t] = "steer"]
            /\ ip' = [ip EXCEPT ![t] = 1]
            /\ UNCHANGED <<motor, log>>
    /\ dets' = [dets EXCEPT ![t] = <<>>]
    /\ UNCHANGED <<ssd, widgets, speed_widget, cell, observers, prob, rule, entry, det>>

\* if det is None: ... else: ...; the detection list is not used any more
Decide(t) ==
    /\ pc[t] = "decide"
    /\ IF det[t] = None
       THEN /\ detstatus' = 0
            /\ motor' = Forward(200)
            /\ log' = [log EXCEPT ![t] = Append(log[t], Forward(200))]
            /\ pc' = [pc EXCEPT ![t] = "ret"]
            /\ UNCHANGED <<ip, center>>
       ELSE /\ detstatus' = 1
            /\ center' = [center EXCEPT ![t] = detection_center(det[t])]
            /\ pc' = [pc EXCEPT ![t] = "steer"]
            /\ ip' = [ip EXCEPT ![t] = 1]
            /\ UNCHANGED <<motor, log>>
    /\ dets' = [dets EXCEPT ![t] = <<>>]
    /\ UNCHANGED <<ssd, widgets, speed_widget, cell, observers, lookcount, prob, rule, entry, det>>

\* one statement of the hit or steering sequence
ProgStep(t, name) ==
    /\ pc[t] = name
    /\ LET prog == Program(name)
           raw == prog[ip[t]]
           e == IF raw.op = "steer" THEN Steer(center[t]) ELSE raw
       IN  /\ log' = [log EXCEPT ![t] = Append(log[t], e)]
           /\ motor' = IF IsMotor(e) THEN e ELSE motor
           /\ observers' = CASE e.op = "unobserve" -> 0
                             [] e.op = "observe" -> Observe(observers)
                             [] OTHER -> observers
           /\ IF ip[t] < Len(prog)
              THEN /\ ip' = [ip EXCEPT ![t] = ip[t] + 1]
                   /\ UNCHANGED pc
              ELSE /\ ip' = [ip EXCEPT ![t] = 0]
                   /\ pc' = [pc EXCEPT ![t] = AfterProgram(name)]
    /\ UNCHANGED <<ssd, widgets, speed_widget, cell, detstatus, lookcount, prob, rule, entry, dets,
                   det, center>>

HitStep(t) == ProgStep(t, "hit")

SteerStep(t) == ProgStep(t, "steer")

\* the closing print and widget update, then the invocation returns and its
\* locals are gone
Return(t) ==
    /\ pc[t] = "ret"
    /\ pc' = [pc EXCEPT ![t] = "idle"]
    /\ ip' = [ip EXCEPT ![t] = 0]
    /\ prob' = [prob EXCEPT ![t] = NoProb]
    /\ rule' = [rule EXCEPT ![t] = "none"]
    /\ entry' = [entry EXCEPT ![t] = NoEntry]
    /\ dets' = [dets EXCEPT ![t] = <<>>]
    /\ det' = [det EXCEPT ![t] = None]
    /\ center' = [center EXCEPT ![t] = NoCenter]
    /\ log' = [log EXCEPT ![t] = <<>>]
    /\ UNCHANGED <<ssd, widgets, speed_widget, cell, observers, detstatus, lookcount, motor>>

\* connect cell: camera.unobserve_all()
ConnectUnobserve ==
    /\ cell = "called"
    /\ pc["main"] = "idle"
    /\ cell' = "connecting"
    /\ observers' = 0
    /\ UNCHANGED <<ssd, widgets, speed_widget, detstatus, lookcount, motor, pc, ip, prob, rule, entry,
                   dets, det, center, log>>

\* connect cell: camera.observe(execute, names='value')
ConnectObserve ==
    /\ cell = "connecting"
    /\ cell' = "connected"
    /\ observers' = Observe(observers)
    /\ UNCHANGED <<ssd, widgets, speed_widget, detstatus, lookcount, motor, pc, ip, prob, rule, entry,
                   dets, det, center, log>>

\* shutdown cell: camera.unobserve_all(), then the one second pause begins
ShutdownUnobserve ==
    /\ cell = "connected"
    /\ cell' = "shutting"
    /\ observers' = 0
    /\ UNCHANGED <<ssd, widgets, speed_widget, detstatus, lookcount, motor, pc, ip, prob, rule, entry,
                   dets, det, center, log>>

\* shutdown cell: robot.stop() after the pause
ShutdownStop ==
    /\ cell = "shutting"
    /\ cell' = "stopped"
    /\ motor' = Stop
    /\ UNCHANGED <<ssd, widgets, speed_widget, observers, detstatus, lookcount, pc, ip, prob, rule, entry,
                   dets, det, center, log>>

Next ==
    \/ DirectCall
    \/ Deliver
    \/ \E t \in Threads : Branch(t)
    \/ \E t \in Threads : Detect(t)
    \/ \E t \in Threads : Decide(t)
    \/ \E t \in Threads : HitStep(t)
    \/ \E t \in Threads : SteerStep(t)
    \/ \E t \in Threads : Return(t)
    \/ ConnectUnobserve
    \/ ConnectObserve
    \/ ShutdownUnobserve
    \/ ShutdownStop

Spec == Init /\ [][Next]_vars

\* a statement of execute on thread t
Step(t) ==
    \/ Branch(t)
    \/ Detect(t)
    \/ Decide(t)
    \/ HitStep(t)
    \/ SteerStep(t)
    \/ Return(t)

\* Every statement of execute returns: the pauses are finite and the
\* collaborators' calls come back, so a thread inside execute keeps going.
SpecLive == Init /\ [][Next]_vars /\ \A t \in Threads : WF_vars(Step(t))

TypeOK ==
    /\ cell \in {"defined", "called", "connecting", "connected", "shutting",
                 "stopped"}
    /\ observers \in 0..1
    /\ detstatus \in 0..1
    /\ lookcount \in 0..LookMax
    /\ \A t \in Threads :
          pc[t] \in {"idle", "branch", "detect", "decide", "hit", "steer",
                     "ret"}

\* two invocations overlap only while the kernel's one is at its closing statements
OverlapOnlyAtReturn ==
    (pc["main"] # "idle" /\ pc["cam"] # "idle") => pc["main"] = "ret"

-----------------------------------------------------------------------------
(* The 7-class notebook: same robot, a classifier with seven outputs, no
   tracking flag and no scan counter, base speed read from the slider *)

P7(b, bl, f, g, h, r, y) ==
    [blocked |-> b, blue |-> bl, free |-> f, green |-> g, hit |-> h,
     red |-> r, yellow |-> y]

Probs7 ==
    { P7(5, 0, 85, 0, 10, 0, 0), P7(10, 0, 10, 70, 0, 10, 0),
      P7(70, 0, 10, 0, 20, 0, 0), P7(55, 5, 35, 0, 5, 0, 0),
      P7(10, 0, 10, 0, 80, 0, 0), P7(30, 10, 30, 10, 10, 5, 5) }

NoProb7 == P7(0, 0, 0, 0, 0, 0, 0)

\* a box touching the right edge of the image
Box3 == <<90, 40, 100, 60>>

DetKinds7 == { Detection(37, Box2), Detection(37, Box3), Detection(1, Box1) }

DetLists7 == UNION { [1..n -> DetKinds7] : n \in 0..MaxDets }

\* positions of the 'speed' slider, its two ends and its initial value
SpeedValues == {0, 400, 1000}

\* labels the user may type: the initial 1 and two ball classes
LabelValues == {1, 37, 53}

\* positions of the 'turn gain' slider, its two ends and its initial value
TurnGainValues == {0, 800, 2000}

FreeTh7 == 40
ColourTh7 == 50
BlockedTh7 == 60
HitTh7 == 50
CenterRef7 == 100
TurnG7 == 300
TargetLabel7 == 37

detection_center7(detection) ==
    LET bbox == detection.bbox
    IN  << (bbox[1] + bbox[3]) - CenterRef7, (bbox[2] + bbox[4]) - CenterRef7 >>

Closer7(d, c) == norm(detection_center7(d)) < norm(detection_center7(c))

RECURSIVE ClosestFrom7(_, _, _)
ClosestFrom7(detections, i, best) ==
    IF i > Len(detections) THEN best
    ELSE ClosestFrom7(detections, i + 1,
            IF best = 0 THEN i
            ELSE IF Closer7(detections[i], detections[best]) THEN i
            ELSE best)

closest_detection7(detections) == ClosestFrom7(detections, 1, 0)

matching_detections7(ds) == SelectSeq(ds, LAMBDA d : d.label = TargetLabel7)

Chosen7(ds) ==
    LET m == matching_detections7(ds)
        i == closest_detection7(m)
    IN  IF i = 0 THEN None ELSE m[i]

Rule7(p) ==
    IF p.free > FreeTh7 THEN "free"
    ELSE IF \/ p.red > ColourTh7 \/ p.yellow > ColourTh7
            \/ p.green > ColourTh7 \/ p.blue > ColourTh7 THEN "colour"
    ELSE IF p.blocked > BlockedTh7 THEN "blocked"
    ELSE IF p.hit > HitTh7 THEN "hit"
    ELSE "default"

BranchCmd7(r) ==
    CASE r = "free" -> <<Forward(200)>>
      [] r = "colour" -> <<Left(100)>>
      [] r = "blocked" -> <<Left(200)>>
      [] OTHER -> <<>>

\* the colour and blocked arms return, the free arm does not
AfterRule7(r) ==
    CASE r \in {"colour", "blocked"} -> "ret"
      [] r = "hit" -> "hit"
      [] OTHER -> "detect"

HitProgram7 ==
    << Unobserve, Sleep(10), Stop, Sleep(5), Forward(400), Sleep(5), Stop,
       Sleep(20), ObserveEv >>

\* the steering arm: robot.stop() follows set_motors with no pause between
SteerProgram7 ==
    << Unobserve, Sleep(5), MotorPlaceholder, Stop, Sleep(20), ObserveEv >>

Program7(name) == IF name = "hit" THEN HitProgram7 ELSE SteerProgram7

\* set_motors with the slider's value as base speed
Steer7(c, speed_g) ==
    SetMotors(speed_g + (TurnG7 * c[1]) \div CenterScale,
              speed_g - (TurnG7 * c[1]) \div CenterScale)

Init7 ==
    /\ cell = "defined"
    /\ observers = 0
    /\ detstatus = 0
    /\ lookcount = 0
    /\ motor = Stop
    /\ pc = [t \in Threads |-> "idle"]
    /\ ip = [t \in Threads |-> 0]
    /\ prob = [t \in Threads |-> NoProb7]
    /\ rule = [t \in Threads |-> "none"]
    /\ entry = [t \in Threads |-> NoEntry]
    /\ dets = [t \in Threads |-> <<>>]
    /\ det = [t \in Threads |-> None]
    /\ center = [t \in Threads |-> NoCenter]
    /\ log = [t \in Threads |-> <<>>]
    /\ speed_widget = 400
    /\ label_widget = 1
    /\ turn_gain_widget = 800
    /\ ssd = NoSsd

Enter7(t) ==
    /\ pc[t] = "idle"
    /\ \E p \in Probs7 : prob' = [prob EXCEPT ![t] = p]
    /\ pc' = [pc EXCEPT ![t] = "branch"]
    /\ log' = [log EXCEPT ![t] = <<>>]
    /\ UNCHANGED <<ssd, widgets, observers, detstatus, lookcount, motor, ip, rule, entry,
                   dets, det, center, speed_widget>>

DirectCall7 ==
    /\ cell = "defined"
    /\ cell' = "called"
    /\ Enter7("main")

Deliver7 ==
    /\ observers > 0
    /\ Enter7("cam")
    /\ UNCHANGED cell

Branch7(t) ==
    /\ pc[t] = "branch"
    /\ LET r == Rule7(prob[t])
           c == BranchCmd7(r)
       IN  /\ rule' = [rule EXCEPT ![t] = r]
           /\ log' = [log EXCEPT ![t] = log[t] \o c]
           /\ motor' = IF c = <<>> THEN motor ELSE c[1]
           /\ pc' = [pc EXCEPT ![t] = AfterRule7(r)]
           /\ ip' = [ip EXCEPT ![t] = IF AfterRule7(r) = "hit" THEN 1 ELSE 0]
    /\ UNCHANGED <<ssd, widgets, cell, observers, detstatus, lookcount, prob, entry, dets,
                   det, center, speed_widget>>

Detect7(t) ==
    /\ pc[t] = "detect"
    /\ \E ds \in DetLists7 :
          /\ dets' = [dets EXCEPT ![t] = ds]
          /\ det' = [det EXCEPT ![t] = Chosen7(ds)]
    /\ log' = [log EXCEPT ![t] = Append(log[t], DetectEv)]
    /\ pc' = [pc EXCEPT ![t] = "decide"]
    /\ UNCHANGED <<ssd, widgets, cell, observers, detstatus, lookcount, motor, ip, prob,
                   rule, entry, center, speed_widget>>

Decide7(t) ==
    /\ pc[t] = "decide"
    /\ IF det[t] = None
       THEN /\ motor' = Forward(200)
            /\ log' = [log EXCEPT ![t] = Append(log[t], Forward(200))]
            /\ pc' = [pc EXCEPT ![t] = "ret"]
            /\ UNCHANGED <<ip, center>>
       ELSE /\ center' = [center EXCEPT ![t] = detection_center7(det[t])]
            /\ pc' = [pc EXCEPT ![t] = "steer"]
            /\ ip' = [ip EXCEPT ![t] = 1]
            /\ UNCHANGED <<motor, log>>
    /\ dets' = [dets EXCEPT ![t] = <<>>]
    /\ UNCHANGED <<ssd, widgets, cell, observers, detstatus, lookcount, prob, rule, entry,
                   det, speed_widget>>

ProgStep7(t, name) ==
    /\ pc[t] = name
    /\ LET prog == Program7(name)
           raw == prog[ip[t]]
           e == IF raw.op = "steer" THEN Steer7(center[t], speed_widget)
                ELSE raw
       IN  /\ log' = [log EXCEPT ![t] = Append(log[t], e)]
           /\ motor' = IF IsMotor(e) THEN e ELSE motor
           /\ observers' = CASE e.op = "unobserve" -> 0
                             [] e.op = "observe" -> Observe(observers)
                             [] OTHER -> observers
           /\ IF ip[t] < Len(prog)
              THEN /\ ip' = [ip EXCEPT ![t] = ip[t] + 1]
                   /\ UNCHANGED pc
              ELSE /\ ip' = [ip EXCEPT ![t] = 0]
                   /\ pc' = [pc EXCEPT ![t] = "ret"]
    /\ UNCHANGED <<ssd, widgets, cell, detstatus, lookcount, prob, rule, entry, dets, det,
                   center, speed_widget>>

HitStep7(t) == ProgStep7(t, "hit")

SteerStep7(t) == ProgStep7(t, "steer")

Return7(t) ==
    /\ pc[t] = "ret"
    /\ pc' = [pc EXCEPT ![t] = "idle"]
    /\ ip' = [ip EXCEPT ![t] = 0]
    /\ prob' = [prob EXCEPT ![t] = NoProb7]
    /\ rule' = [rule EXCEPT ![t] = "none"]
    /\ dets' = [dets EXCEPT ![t] = <<>>]
    /\ det' = [det EXCEPT ![t] = None]
    /\ center' = [center EXCEPT ![t] = NoCenter]
    /\ log' = [log EXCEPT ![t] = <<>>]
    /\ UNCHANGED <<ssd, widgets, cell, observers, detstatus, lookcount, motor, entry,
                   speed_widget>>

\* the user drags the 'speed' slider; the kernel handles the widget message
\* between cells
SetSpeed7 ==
    /\ cell \in {"called", "connected", "stopped"}
    /\ pc["main"] = "idle"
    /\ \E v \in SpeedValues : v # speed_widget /\ speed_widget' = v
    /\ UNCHANGED <<ssd, widgets, cell, observers, detstatus, lookcount, motor, pc, ip, prob,
                   rule, entry, dets, det, center, log>>

\* the user types another label into the 'tracked label' box
SetLabel7 ==
    /\ cell \in {"called", "connected", "stopped"}
    /\ pc["main"] = "idle"
    /\ \E v \in LabelValues : v # label_widget /\ label_widget' = v
    /\ UNCHANGED <<ssd, cell, observers, detstatus, lookcount, motor, pc, ip, prob,
                   rule, entry, dets, det, center, log, speed_widget,
                   turn_gain_widget>>

\* the user drags the 'turn gain' slider
SetTurnGain7 ==
    /\ cell \in {"called", "connected", "stopped"}
    /\ pc["main"] = "idle"
    /\ \E v \in TurnGainValues : v # turn_gain_widget /\ turn_gain_widget' = v
    /\ UNCHANGED <<ssd, cell, observers, detstatus, lookcount, motor, pc, ip, prob,
                   rule, entry, dets, det, center, log, speed_widget,
                   label_widget>>

ConnectUnobserve7 ==
    /\ cell = "called"
    /\ pc["main"] = "idle"
    /\ cell' = "connecting"
    /\ observers' = 0
    /\ UNCHANGED <<ssd, widgets, detstatus, lookcount, motor, pc, ip, prob, rule, entry,
                   dets, det, center, log, speed_widget>>

ConnectObserve7 ==
    /\ cell = "connecting"
    /\ cell' = "connected"
    /\ observers' = Observe(observers)
    /\ UNCHANGED <<ssd, widgets, detstatus, lookcount, motor, pc, ip, prob, rule, entry,
                   dets, det, center, log, speed_widget>>

ShutdownUnobserve7 ==
    /\ cell = "connected"
    /\ cell' = "shutting"
    /\ observers' = 0
    /\ UNCHANGED <<ssd, widgets, detstatus, lookcount, motor, pc, ip, prob, rule, entry,
                   dets, det, center, log, speed_widget>>

ShutdownStop7 ==
    /\ cell = "shutting"
    /\ cell' = "stopped"
    /\ motor' = Stop
    /\ UNCHANGED <<ssd, widgets, observers, detstatus, lookcount, pc, ip, prob, rule, entry,
                   dets, det, center, log, speed_widget>>

Next7 ==
    \/ DirectCall7
    \/ Deliver7
    \/ \E t \in Threads : Branch7(t)
    \/ \E t \in Threads : Detect7(t)
    \/ \E t \in Threads : Decide7(t)
    \/ \E t \in Threads : HitStep7(t)
    \/ \E t \in Threads : SteerStep7(t)
    \/ \E t \in Threads : Return7(t)
    \/ SetSpeed7
    \/ SetLabel7
    \/ SetTurnGain7
    \/ ConnectUnobserve7
    \/ ConnectObserve7
    \/ ShutdownUnobserve7
    \/ ShutdownStop7

Spec7 == Init7 /\ [][Next7]_vars

-----------------------------------------------------------------------------
(* test_detection.ipynb: the 7-class chain, with the TensorRT SSD wrapper in
   place of the jetbot object detector *)

ImgW == 300
ImgH == 300
ConfTh == 30

\* one record of the SSD output buffer: class, confidence, normalized box
Raw(c, p, b) == [cls |-> c, conf |-> p, box |-> b]

RawKinds == { Raw(37, 90, Box2), Raw(37, 20, Box1), Raw(1, 30, Box3) }

OutputsT == UNION { [1..n -> RawKinds] : n \in 0..MaxDets }

\* int(output[prefix+3] * img_w) and so on
Pixels(b) ==
    << (b[1] * ImgW) \div 100, (b[2] * ImgH) \div 100,
       (b[3] * ImgW) \div 100, (b[4] * ImgH) \div 100 >>

postprocessStrict(output, conf_th) ==
    LET kept == SelectSeq(output, LAMBDA o : ~(o.conf <= conf_th))
    IN  [ boxes |-> [i \in 1..Len(kept) |-> Pixels(kept[i].box)],
          confs |-> [i \in 1..Len(kept) |-> kept[i].conf],
          clss |-> [i \in 1..Len(kept) |-> kept[i].cls] ]

\* records below the confidence threshold are skipped, the others are
\* reported as pixel boxes, confidences and classes
postprocess(output, conf_th) ==
    LET kept == SelectSeq(output, LAMBDA o : ~(o.conf < conf_th))
    IN  [ boxes |-> [i \in 1..Len(kept) |-> Pixels(kept[i].box)],
          confs |-> [i \in 1..Len(kept) |-> kept[i].conf],
          clss |-> [i \in 1..Len(kept) |-> kept[i].cls] ]

\* the exception raised by the cv2.rectangle statement: bbox[0] of an empty
\* list is an IndexError, int(width * bbox[0]) of a tuple is a TypeError
IndexError == Ev("raise", 1, 0)
TypeError == Ev("raise", 2, 0)

DrawError(bbox) == IF bbox = <<>> THEN IndexError ELSE TypeError

RuleT(p) ==
    IF p.free > 40 THEN "free"
    ELSE IF \/ p.red > 50 \/ p.yellow > 50
            \/ p.green > 50 \/ p.blue > 50 THEN "colour"
    ELSE IF p.blocked > 60 THEN "blocked"
    ELSE IF p.hit > 50 THEN "hit"
    ELSE "default"

BranchCmdT(r) ==
    CASE r = "free" -> <<Forward(200)>>
      [] r = "colour" -> <<Left(100)>>
      [] r = "blocked" -> <<Left(200)>>
      [] OTHER -> <<>>

AfterRuleT(r) ==
    CASE r \in {"colour", "blocked"} -> "ret"
      [] r = "hit" -> "hit"
      [] OTHER -> "detect"

HitProgramT ==
    << Unobserve, Sleep(10), Stop, Sleep(5), Forward(400), Sleep(5), Stop,
       Sleep(20), ObserveEv >>

InitT == Init7

EnterT(t) ==
    /\ pc[t] = "idle"
    /\ \E p \in Probs7 : prob' = [prob EXCEPT ![t] = p]
    /\ pc' = [pc EXCEPT ![t] = "branch"]
    /\ log' = [log EXCEPT ![t] = <<>>]
    /\ UNCHANGED <<ssd, widgets, observers, detstatus, lookcount, motor, ip, rule, entry,
                   dets, det, center, speed_widget>>

DirectCallT ==
    /\ cell = "defined"
    /\ cell' = "called"
    /\ EnterT("main")

DeliverT ==
    /\ observers > 0
    /\ EnterT("cam")
    /\ UNCHANGED cell

BranchT(t) ==
    /\ pc[t] = "branch"
    /\ LET r == RuleT(prob[t])
           c == BranchCmdT(r)
       IN  /\ rule' = [rule EXCEPT ![t] = r]
           /\ log' = [log EXCEPT ![t] = log[t] \o c]
           /\ motor' = IF c = <<>> THEN motor ELSE c[1]
           /\ pc' = [pc EXCEPT ![t] = AfterRuleT(r)]
           /\ ip' = [ip EXCEPT ![t] = IF AfterRuleT(r) = "hit" THEN 1 ELSE 0]
    /\ UNCHANGED <<ssd, widgets, cell, observers, detstatus, lookcount, prob, entry, dets,
                   det, center, speed_widget>>

HitStepT(t) ==
    /\ pc[t] = "hit"
    /\ LET e == HitProgramT[ip[t]]
       IN  /\ log' = [log EXCEPT ![t] = Append(log[t], e)]
           /\ motor' = IF IsMotor(e) THEN e ELSE motor
           /\ observers' = CASE e.op = "unobserve" -> 0
                             [] e.op = "observe" -> Observe(observers)
                             [] OTHER -> observers
           /\ IF ip[t] < Len(HitProgramT)
              THEN /\ ip' = [ip EXCEPT ![t] = ip[t] + 1]
                   /\ UNCHANGED pc
              ELSE /\ ip' = [ip EXCEPT ![t] = 0]
                   /\ pc' = [pc EXCEPT ![t] = "ret"]
    /\ UNCHANGED <<ssd, widgets, cell, detstatus, lookcount, prob, rule, entry, dets, det,
                   center, speed_widget>>

\* bbox, confs, clss = trt_ssd.detect(image, conf_th)
DetectT(t) ==
    /\ pc[t] = "detect"
    /\ \E output \in OutputsT :
          dets' = [dets EXCEPT ![t] = postprocess(output, ConfTh).boxes]
    /\ log' = [log EXCEPT ![t] = Append(log[t], DetectEv)]
    /\ pc' = [pc EXCEPT ![t] = "draw"]
    /\ UNCHANGED <<ssd, widgets, cell, observers, detstatus, lookcount, motor, ip, prob,
                   rule, entry, det, center, speed_widget>>

\* if bbox is not None: cv2.rectangle(image, (int(width * bbox[0]), ...
\* bbox is a list, never None, so the statement is always executed and its
\* first argument always raises; what follows it in execute is never reached
DrawT(t) ==
    /\ pc[t] = "draw"
    /\ log' = [log EXCEPT ![t] = Append(log[t], DrawError(dets[t]))]
    /\ pc' = [pc EXCEPT ![t] = "raised"]
    /\ UNCHANGED <<ssd, widgets, cell, observers, detstatus, lookcount, motor, ip, prob,
                   rule, entry, dets, det, center, speed_widget>>

ReturnT(t) ==
    /\ pc[t] = "ret"
    /\ pc' = [pc EXCEPT ![t] = "idle"]
    /\ ip' = [ip EXCEPT ![t] = 0]
    /\ prob' = [prob EXCEPT ![t] = NoProb7]
    /\ rule' = [rule EXCEPT ![t] = "none"]
    /\ log' = [log EXCEPT ![t] = <<>>]
    /\ UNCHANGED <<ssd, widgets, cell, observers, detstatus, lookcount, motor, entry, dets,
                   det, center, speed_widget>>

\* the exception ends the cell that called execute directly; the kernel is
\* free for the next cell.  On the camera thread nothing catches it: the
\* thread has ended and stays at "raised".
AbortCellT ==
    /\ pc["main"] = "raised"
    /\ pc' = [pc EXCEPT !["main"] = "idle"]
    /\ ip' = [ip EXCEPT !["main"] = 0]
    /\ prob' = [prob EXCEPT !["main"] = NoProb7]
    /\ rule' = [rule EXCEPT !["main"] = "none"]
    /\ dets' = [dets EXCEPT !["main"] = <<>>]
    /\ log' = [log EXCEPT !["main"] = <<>>]
    /\ UNCHANGED <<ssd, widgets, cell, observers, detstatus, lookcount, motor, entry, det,
                   center, speed_widget>>

ConnectUnobserveT ==
    /\ cell = "called"
    /\ pc["main"] = "idle"
    /\ cell' = "connecting"
    /\ observers' = 0
    /\ UNCHANGED <<ssd, widgets, detstatus, lookcount, motor, pc, ip, prob, rule, entry,
                   dets, det, center, log, speed_widget>>

ConnectObserveT ==
    /\ cell = "connecting"
    /\ cell' = "connected"
    /\ observers' = Observe(observers)
    /\ UNCHANGED <<ssd, widgets, detstatus, lookcount, motor, pc, ip, prob, rule, entry,
                   dets, det, center, log, speed_widget>>

ShutdownUnobserveT ==
    /\ cell = "connected"
    /\ cell' = "shutting"
    /\ observers' = 0
    /\ UNCHANGED <<ssd, widgets, detstatus, lookcount, motor, pc, ip, prob, rule, entry,
                   dets, det, center, log, speed_widget>>

ShutdownStopT ==
    /\ cell = "shutting"
    /\ cell' = "stopped"
    /\ motor' = Stop
    /\ UNCHANGED <<ssd, widgets, observers, detstatus, lookcount, pc, ip, prob, rule, entry,
                   dets, det, center, log, speed_widget>>

NextT ==
    \/ DirectCallT
    \/ DeliverT
    \/ \E t \in Threads : BranchT(t)
    \/ \E t \in Threads : HitStepT(t)
    \/ \E t \in Threads : DetectT(t)
    \/ \E t \in Threads : DrawT(t)
    \/ \E t \in Threads : ReturnT(t)
    \/ AbortCellT
    \/ ConnectUnobserveT
    \/ ConnectObserveT
    \/ ShutdownUnobserveT
    \/ ShutdownStopT

SpecT == InitT /\ [][NextT]_vars

-----------------------------------------------------------------------------
(* The steering formula on its own: the set_motors arguments of both notebooks
   computed for two horizontal offsets side by side *)

\* horizontal offsets in 1/200 of the image width, neighbours included
Offsets == {-100, -20, -1, 0, 1, 2, 100, 180}

InitDrive ==
    /\ cell = "defined"
    /\ observers = 0
    /\ detstatus = 0
    /\ lookcount = 0
    /\ motor = Stop
    /\ pc = [t \in Threads |-> "idle"]
    /\ ip = [t \in Threads |-> 0]
    /\ prob = [t \in Threads |-> NoProb]
    /\ rule = [t \in Threads |-> "none"]
    /\ entry = [t \in Threads |-> NoEntry]
    /\ dets = [t \in Threads |-> <<>>]
    /\ det = [t \in Threads |-> None]
    /\ center \in [Threads -> {<<x, 0>> : x \in Offsets}]
    /\ log = [t \in Threads |-> <<>>]
    /\ speed_widget \in SpeedValues
    /\ label_widget = 1
    /\ turn_gain_widget = 800
    /\ ssd = NoSsd

\* robot.set_motors of final-soccerbot.ipynb for the offset center[t]
ApplySteer(t) ==
    /\ log[t] = <<>>
    /\ log' = [log EXCEPT ![t] = <<Steer(center[t])>>]
    /\ UNCHANGED <<ssd, cell, observers, detstatus, lookcount, motor, pc, ip, prob,
                   rule, entry, dets, det, center, speed_widget, widgets>>

\* robot.set_motors of the 7-class notebook for the same offset
ApplySteer7(t) ==
    /\ Len(log[t]) = 1
    /\ log' = [log EXCEPT ![t] = Append(log[t], Steer7(center[t], speed_widget))]
    /\ UNCHANGED <<ssd, cell, observers, detstatus, lookcount, motor, pc, ip, prob,
                   rule, entry, dets, det, center, speed_widget, widgets>>

NextDrive ==
    \/ \E t \in Threads : ApplySteer(t)
    \/ \E t \in Threads : ApplySteer7(t)

SpecDrive == InitDrive /\ [][NextDrive]_vars

-----------------------------------------------------------------------------
(* The final notebook with a failing motor driver: a motor call of the hit arm
   may raise.  execute has no try / except, so the exception leaves it. *)

MotorError == Ev("raise", 3, 0)

MotorRaiseWithStop(t) ==
    /\ pc[t] = "hit"
    /\ IsMotor(HitProgram[ip[t]])
    /\ log' = [log EXCEPT ![t] = Append(log[t], MotorError)]
    /\ pc' = [pc EXCEPT ![t] = "raised"]
    /\ motor' = Stop
    /\ UNCHANGED <<ssd, widgets, cell, observers, detstatus, lookcount, ip, prob,
                   rule, entry, dets, det, center, speed_widget>>

\* robot.stop() or robot.forward(0.4) of the hit arm raises instead of acting
MotorRaise(t) ==
    /\ pc[t] = "hit"
    /\ IsMotor(HitProgram[ip[t]])
    /\ log' = [log EXCEPT ![t] = Append(log[t], MotorError)]
    /\ pc' = [pc EXCEPT ![t] = "raised"]
    /\ UNCHANGED <<ssd, widgets, cell, observers, detstatus, lookcount, motor, ip,
                   prob, rule, entry, dets, det, center, speed_widget>>

\* the exception ends the cell that called execute directly and its traceback
\* stays in the cell's output; the kernel is free for the next cell.  On the
\* camera thread nothing catches it: the thread has ended, at "raised".
AbortCell ==
    /\ pc["main"] = "raised"
    /\ pc' = [pc EXCEPT !["main"] = "idle"]
    /\ ip' = [ip EXCEPT !["main"] = 0]
    /\ prob' = [prob EXCEPT !["main"] = NoProb]
    /\ rule' = [rule EXCEPT !["main"] = "none"]
    /\ entry' = [entry EXCEPT !["main"] = NoEntry]
    /\ UNCHANGED <<ssd, widgets, cell, observers, detstatus, lookcount, motor,
                   dets, det, center, log, speed_widget>>

NextFail ==
    \/ DirectCall
    \/ Deliver
    \/ \E t \in Threads : Branch(t)
    \/ \E t \in Threads : Detect(t)
    \/ \E t \in Threads : Decide(t)
    \/ \E t \in Threads : HitStep(t)
    \/ \E t \in Threads : SteerStep(t)
    \/ \E t \in Threads : Return(t)
    \/ \E t \in Threads : MotorRaise(t)
    \/ AbortCell
    \/ ConnectUnobserve
    \/ ConnectObserve
    \/ ShutdownUnobserve
    \/ ShutdownStop

SpecFail == Init /\ [][NextFail]_vars

-----------------------------------------------------------------------------
(* postprocess of test_detection.ipynb on its own: called once on a raw output
   and a threshold *)

MaxRecords == 3

\* records with confidences below, at and above the thresholds
RawKindsP == RawKinds \cup { Raw(53, 50, Box1) }

OutputsP == UNION { [1..n -> RawKindsP] : n \in 0..MaxRecords }

\* thresholds a caller passes: the notebook's 0.3 and a stricter one
ConfThs == {30, 50}

InitPost ==
    /\ cell = "defined"
    /\ observers = 0
    /\ detstatus = 0
    /\ lookcount = 0
    /\ motor = Stop
    /\ pc = [t \in Threads |-> "idle"]
    /\ ip = [t \in Threads |-> 0]
    /\ prob = [t \in Threads |-> NoProb7]
    /\ rule = [t \in Threads |-> "none"]
    /\ entry = [t \in Threads |-> NoEntry]
    /\ dets = [t \in Threads |-> <<>>]
    /\ det = [t \in Threads |-> None]
    /\ center = [t \in Threads |-> NoCenter]
    /\ log = [t \in Threads |-> <<>>]
    /\ speed_widget = 400
    /\ label_widget = 1
    /\ turn_gain_widget = 800
    /\ \E o \in OutputsP, c \in ConfThs :
          ssd = [NoSsd EXCEPT !.output = o, !.conf_th = c]

\* return postprocess(img, output, conf_th)
Postprocess ==
    /\ ~ssd.done
    /\ LET r == postprocess(ssd.output, ssd.conf_th)
       IN  ssd' = [ssd EXCEPT !.done = TRUE, !.boxes = r.boxes,
                              !.confs = r.confs, !.clss = r.clss]
    /\ UNCHANGED <<cell, observers, detstatus, lookcount, motor, pc, ip, prob,
                   rule, entry, dets, det, center, log, speed_widget, widgets>>

NextPost == Postprocess

SpecPost == InitPost /\ [][NextPost]_vars

-----------------------------------------------------------------------------
(* Vocabulary of the properties *)

\* an invocation of execute is in progress on thread t
Active(t) == pc[t] # "idle"

\* this step gives a command to the robot from inside execute
MotorStep ==
    \E t \in Threads :
        /\ Len(log'[t]) = Len(log[t]) + 1
        /\ IsMotor(log'[t][Len(log'[t])])

\* this step enters execute on some thread
EnterStep == \E t \in Threads : pc[t] = "idle" /\ pc'[t] # "idle"

HasOp(l, o) == \E i \in 1..Len(l) : l[i].op = o

\* thread t is in the hit arm, past camera.unobserve_all and before camera.observe
InManeuver(t) == rule[t] = "hit" /\ HasOp(log[t], "unobserve") /\ ~HasOp(log[t], "observe")

\* squared distance of the bounding-box midpoint from the image center (0.5, 0.5)
ImageCenterDist(d) ==
    LET x == (d.bbox[1] + d.bbox[3]) - 100
        y == (d.bbox[2] + d.bbox[4]) - 100
    IN  x * x + y * y

-----------------------------------------------------------------------------
\* C1 (as claimed): every invocation of execute issues at most one motor
\* command in total.
C1_AtMostOneCommand == \A t \in Threads : Len(Cmds(log[t])) <= 1

\* C1 (amended): every invocation of execute issues at most three motor
\* commands in total.
C1_AtMostThreeCommands == \A t \in Threads : Len(Cmds(log[t])) <= 3

C1_Witness ==
    \E t \in Threads :
        /\ pc[t] = "ret"
        /\ rule[t] = "search"
        /\ Len(Cmds(log[t])) = 3

\* C2: on a frame with free > 0.4 and blocked > 0.5 or hit > 0.5, execute
\* takes a free-space arm: neither Left(0.2) nor any step of the escape
\* maneuver is issued on that frame, whatever the tracking flag.
C2_FreePreempts ==
    \A t \in Threads :
        ( /\ pc[t] \notin {"idle", "branch"}
          /\ prob[t].free > 40
          /\ (prob[t].blocked > 50 \/ prob[t].hit > 50) )
        => /\ pc[t] # "hit"
           /\ rule[t] = (IF entry[t].detstatus = 0 THEN "search" ELSE "tracked")
           /\ \A i \in 1..Len(log[t]) :
                 /\ log[t][i] # Left(200)
                 /\ log[t][i] # Forward(400)
           /\ Len(Cmds(log[t])) >= 1
           /\ Cmds(log[t])[1] \in {Left(100), Forward(200)}

C2_Witness ==
    \E t \in Threads :
        /\ pc[t] = "ret"
        /\ prob[t] = P(55, 45, 0)
        /\ entry[t].detstatus = 1
        /\ Cmds(log[t]) = <<Forward(200)>>

\* C3: once the shutdown cell has finished, execute is not subscribed to the
\* camera and no motor command is issued any more.
C3_ShutdownIsFinal ==
    [][ /\ (cell' = "stopped" => observers' = 0)
        /\ (cell = "stopped" => ~MotorStep) ]_vars

\* C4: two invocations of execute are never active at once.
C4_NoConcurrentExecute == ~(Active("main") /\ Active("cam"))

C5_OrderInLog(l) ==
    /\ l # <<>> => l[1].op = "unobserve"
    /\ \A i \in 1..Len(l) :
          l[i].op = "observe" =>
              /\ i = Len(l)
              /\ Cmds(SubSeq(l, 1, i - 1)) = <<Stop, Forward(400), Stop>>
              /\ l[i - 1].op = "sleep"
              /\ Len(SelectSeq(l, LAMBDA e : e.op = "sleep")) = 4

C6_SteerDetached ==
    \A t \in Threads :
        ( /\ pc[t] = "steer"
          /\ HasOp(log[t], "set_motors")
          /\ ~HasOp(log[t], "observe") )
        => observers = 0

\* C7: the detection chosen as target is, among the target-labelled ones, the
\* one whose midpoint is nearest to the image center; for the boxes
\* [0.1,0.1,0.3,0.3] and [0.45,0.45,0.55,0.55], in that order, it is the second.
C7_NearestToImageCenter ==
    \A t \in Threads :
        pc[t] = "decide" =>
            LET m == matching_detections(dets[t])
            IN  /\ \A j \in 1..Len(m) :
                      ImageCenterDist(det[t]) <= ImageCenterDist(m[j])
                /\ (m = <<Detection(37, Box1), Detection(37, Box2)>>
                        => det[t] = Detection(37, Box2))

\* C8: detection_center returns the offset of the bounding-box midpoint from
\* the image center, ((x1+x2)/2 - 0.5, (y1+y2)/2 - 0.5).
C8_CenterIsOffsetFromImageCenter ==
    \A t \in Threads :
        pc[t] = "steer" =>
            center[t] = << (det[t].bbox[1] + det[t].bbox[3]) - 100,
                           (det[t].bbox[2] + det[t].bbox[4]) - 100 >>

CenterNorm(d) == norm(detection_center(d))

C10_ScanTurnOnly ==
    \A t \in Threads :
        ( /\ pc[t] = "ret"
          /\ prob[t].free > 40
          /\ entry[t].detstatus = 0
          /\ entry[t].lookcount < 10 )
        => /\ Cmds(log[t])[1] = Left(100)
           /\ ~HasOp(log[t], "forward")
           /\ lookcount = entry[t].lookcount + 1

\* number of Forward(0.2) commands in a log
CruiseCount(l) == Len(SelectSeq(l, LAMBDA e : e = Forward(200)))

\* C11: over consecutive search frames the scanning turn is issued while the
\* counter runs from 0 to 9 (ten frames) and Forward(0.2) is not; on the frame
\* that finds the counter at 10, Forward(0.2) is issued exactly once, with no
\* turn, and the counter is reset to 0.
C11_ScanCycle ==
    \A t \in Threads :
        ( /\ pc[t] = "ret"
          /\ prob[t].free > 40
          /\ entry[t].detstatus = 0 )
        => /\ entry[t].lookcount < 10 =>
                /\ HasOp(log[t], "left")
                /\ CruiseCount(log[t]) = 0
                /\ lookcount = entry[t].lookcount + 1
           /\ entry[t].lookcount = 10 =>
                /\ ~HasOp(log[t], "left")
                /\ CruiseCount(log[t]) = 1
                /\ lookcount = 0

\* C12: on a frame with free > 0.4 and the tracking flag set, execute issues
\* Forward(0.2) and nothing else: no detector call, no detach, and the tracking
\* flag and the scan counter keep their values.
C12_TrackedForwardOnly ==
    \A t \in Threads :
        ( /\ pc[t] \notin {"idle", "branch"}
          /\ prob[t].free > 40
          /\ entry[t].detstatus = 1 )
        => /\ pc[t] = "ret"
           /\ log[t] = <<Forward(200)>>
           /\ detstatus = 1
           /\ lookcount = entry[t].lookcount

C12_Witness ==
    \E t \in Threads :
        /\ pc[t] = "ret"
        /\ prob[t] = P(5, 85, 10)
        /\ entry[t].detstatus = 1
        /\ entry[t].lookcount > 0
        /\ log[t] = <<Forward(200)>>
        /\ observers = 1

\* C13: on a frame with blocked above its threshold and free <= 0.4, the motor
\* commands of the frame are one Left turn and nothing else, whatever the
\* detector would return.
C13_BlockedLeftOnly ==
    \A t \in Threads :
        ( /\ pc[t] = "ret"
          /\ prob[t].blocked > 50
          /\ prob[t].free <= 40 )
        => Cmds(log[t]) = <<Left(200)>>

\* thread t is, after this step, past the if/elif chain on a frame on which only
\* the hit rule matches
HitFrameNext(t) ==
    /\ pc'[t] \notin {"idle", "branch"}
    /\ prob'[t].hit > 50
    /\ prob'[t].free <= 40
    /\ prob'[t].blocked <= 50

IsPrefix(a, b) == Len(a) <= Len(b) /\ SubSeq(b, 1, Len(a)) = a

\* C14: on a frame on which only the hit rule matches, the motor commands are
\* Stop, Forward(0.4), Stop in that order, each followed by a pause; execute
\* then returns without calling the detector, and its steps leave the tracking
\* flag and the scan counter unchanged.
C14_EscapeManeuver ==
    [][ \A t \in Threads :
          HitFrameNext(t) =>
              /\ IsPrefix(Cmds(log'[t]), <<Stop, Forward(400), Stop>>)
              /\ ~HasOp(log'[t], "detect")
              /\ (log'[t] # log[t] \/ pc[t] = "branch") =>
                    (detstatus' = detstatus /\ lookcount' = lookcount)
              /\ pc'[t] = "ret" =>
                    /\ Cmds(log'[t]) = <<Stop, Forward(400), Stop>>
                    /\ \A i \in 1..Len(log'[t]) :
                          IsMotor(log'[t][i]) =>
                              /\ i < Len(log'[t])
                              /\ log'[t][i + 1].op = "sleep"
      ]_vars

C14_Witness ==
    \E t \in Threads :
        /\ pc[t] = "ret"
        /\ prob[t] = P(10, 10, 80)
        /\ Cmds(log[t]) = <<Stop, Forward(400), Stop>>
        /\ entry[t].lookcount > 0
        /\ lookcount = entry[t].lookcount
        /\ detstatus = entry[t].detstatus

\* no detection of the list carries a target label
NoTargetIn(ds) == \A i \in 1..Len(ds) : ds[i].label \notin {37, 53, 55}

\* C15: when the detection path finds no target-labelled detection (the empty
\* list included), execute issues Forward(0.2), clears the tracking flag,
\* leaves the scan counter and the subscription alone and goes on to return.
C15_NoTargetForward ==
    [][ \A t \in Threads :
          (pc[t] = "decide" /\ pc'[t] # "decide" /\ NoTargetIn(dets[t])) =>
              /\ log'[t] = Append(log[t], Forward(200))
              /\ motor' = Forward(200)
              /\ detstatus' = 0
              /\ lookcount' = lookcount
              /\ observers' = observers
              /\ pc'[t] = "ret"
              /\ ~HasOp(log'[t], "unobserve")
      ]_vars

C15_Witness ==
    \E t \in Threads :
        /\ pc[t] = "ret"
        /\ rule[t] = "default"
        /\ entry[t].detstatus = 1
        /\ detstatus = 0
        /\ log[t] = <<DetectEv, Forward(200)>>

\* C16: when the detection path finds a target, execute issues
\* set_motors(0.5 + 0.2 * cx, 0.5 - 0.2 * cx), cx being the horizontal offset of
\* the target's midpoint from the image center, with the tracking flag set, and
\* then Stop and a pause before the callback is attached again.
C16_SteerTowardsTarget ==
    \A t \in Threads :
        (pc[t] \in {"steer", "ret"} /\ HasOp(log[t], "set_motors")) =>
            LET cx == (det[t].bbox[1] + det[t].bbox[3]) - 100
                i == CHOOSE k \in 1..Len(log[t]) : log[t][k].op = "set_motors"
            IN  /\ log[t][i] = SetMotors(500 + (200 * cx) \div 200,
                                         500 - (200 * cx) \div 200)
                /\ pc[t] = "ret" =>
                      /\ log[t][i + 2] = Stop
                      /\ log[t][Len(log[t]) - 1].op = "sleep"

\* C17: the detector is called on a frame only if none of the rules on free,
\* blocked and hit matched on it.
C17_DetectorOnlyOnDefault ==
    \A t \in Threads :
        HasOp(log[t], "detect") =>
            /\ prob[t].free <= 40
            /\ prob[t].blocked <= 50
            /\ prob[t].hit <= 50

\* a speed the actuator accepts, in 1/1000
InRange(v) == -1000 <= v /\ v <= 1000

\* C18: every speed execute passes to the motor actuator (forward, left, both
\* arguments of set_motors) lies in [-1, 1], whatever the detection's box inside
\* the image and wherever the speed slider stands.
C18_SpeedsInRange ==
    \A t \in Threads : \A i \in 1..Len(log[t]) :
        IsMotor(log[t][i]) => InRange(log[t][i].a) /\ InRange(log[t][i].b)

\* C20: in test_detection.ipynb, when execute reaches the detection call and
\* trt_ssd.detect reports an empty box list, execute raises no exception and
\* issues Forward(0.2).
C20_EmptyBoxesForward ==
    \A t \in Threads :
        ( /\ HasOp(log[t], "detect")
          /\ dets[t] = <<>>
          /\ pc[t] \in {"ret", "raised"} )
        => /\ ~HasOp(log[t], "raise")
           /\ log[t][Len(log[t])] = Forward(200)

TargetLabelOnly7 ==
    \A t \in Threads :
        /\ det[t] # None => det[t].label = 37
        /\ pc[t] = "decide" =>
              ((\A i \in 1..Len(dets[t]) : dets[t][i].label # 37)
                  => det[t] = None)

\* C22: when the selected detection's midpoint is at the image center, the
\* steering command has both wheels at the base speed: set_motors(0.5, 0.5).
C22_CenteredGoesStraight ==
    \A t \in Threads : \A i \in 1..Len(log[t]) :
        ( /\ log[t][i].op = "set_motors"
          /\ det[t].bbox[1] + det[t].bbox[3] = 100
          /\ det[t].bbox[2] + det[t].bbox[4] = 100 )
        => log[t][i] = SetMotors(500, 500)

C24_EmptyListGivesNone ==
    \A t \in Threads :
        (pc[t] = "decide" /\ NoTargetIn(dets[t])) =>
            /\ det[t] = None
            /\ ~HasOp(log[t], "raise")
            /\ log[t][Len(log[t])] = DetectEv

C24_Witness ==
    \E t \in Threads :
        /\ pc[t] = "decide"
        /\ dets[t] = <<>>
        /\ det[t] = None
        /\ rule[t] = "default"

\* C25: execute is subscribed to the camera only once the connect cell has
\* run: before it, and in particular after the direct call of execute, whatever
\* arm that frame took, no observer is registered.
C25_SubscribedOnlyByConnect ==
    cell \in {"defined", "called"} => observers = 0

\* C26: in the 7-class notebook the widgets steer the policy: the detection
\* execute selects carries the label shown in the 'tracked label' widget, and
\* the set_motors command uses the 'turn gain' widget's value as its gain.
C26_WidgetsSteer ==
    [][ \A t \in Threads :
          /\ (pc[t] = "detect" /\ pc'[t] = "decide" /\ det'[t] # None)
             => det'[t].label = label_widget
          /\ ( /\ Len(log'[t]) = Len(log[t]) + 1
               /\ log'[t][Len(log'[t])].op = "set_motors" )
             => log'[t][Len(log'[t])] =
                    SetMotors(
                      speed_widget
                          + (turn_gain_widget * center[t][1]) \div CenterScale,
                      speed_widget
                          - (turn_gain_widget * center[t][1]) \div CenterScale)
      ]_vars

\* a step of execute that may write the globals: the if/elif chain or the
\* branch on the chosen detection
GlobalWriter(t) == pc[t] \in {"branch", "decide"} /\ pc'[t] # pc[t]

\* C27: in every reachable state the tracking flag is 0 or 1 and the scan
\* counter is an integer from 0 to 10, and a step that changes either of them
\* is a step of execute.
C27_FlagAndCounterRange ==
    /\ [](detstatus \in {0, 1} /\ lookcount \in 0..10)
    /\ [][ (detstatus' # detstatus \/ lookcount' # lookcount)
              => \E t \in Threads : GlobalWriter(t) ]_vars

C27_Witness == lookcount = 10 /\ detstatus = 1

\* C28: once the tracking flag is set, a frame with free > 0.4 leaves it set
\* and does not call the detector; the only step that clears the flag is the
\* det-is-None branch of a frame with free <= 0.4 whose detections hold no
\* target label.
C28_FlagClearedOnlyOffFree ==
    [][ /\ (detstatus = 1 /\ detstatus' = 0) =>
              \E t \in Threads :
                  /\ pc[t] = "decide"
                  /\ pc'[t] = "ret"
                  /\ prob[t].free <= 40
                  /\ NoTargetIn(dets[t])
        /\ \A t \in Threads :
              ( /\ pc'[t] \notin {"idle", "branch"}
                /\ entry'[t].detstatus = 1
                /\ prob'[t].free > 40 )
              => /\ detstatus' = 1
                 /\ ~HasOp(log'[t], "detect")
      ]_vars

\* the flag was set when a frame with free <= 0.4 came in, and that frame,
\* finding no target, has cleared it
C28_Witness ==
    \E t \in Threads :
        /\ pc[t] = "ret"
        /\ prob[t] = P(70, 10, 20)
        /\ entry[t].detstatus = 1
        /\ detstatus = 0
        /\ HasOp(log[t], "detect")

\* every invocation of execute terminates (under SpecLive)
Terminates == \A t \in Threads : (pc[t] # "idle") ~> (pc[t] = "idle")

\* C29: an invocation that detached the callback attaches it again before its
\* closing statements, so that it is registered exactly once, and, the cells
\* leaving the subscription alone, it still is when the invocation returns;
\* there is never a second registration.
C29_ReturnsAttachedOnce ==
    /\ [](observers \in 0..1)
    /\ [][ \A t \in Threads :
             /\ (pc[t] \in {"hit", "steer"} /\ pc'[t] = "ret")
                => (HasOp(log'[t], "unobserve") /\ observers' = 1)
             /\ ( /\ pc[t] = "ret"
                  /\ pc'[t] = "idle"
                  /\ HasOp(log[t], "unobserve")
                  /\ cell \in {"called", "connected"} )
                => observers = 1
         ]_vars

\* a motor call has raised inside invocation t
Failed(t) == HasOp(log[t], "raise")

C31_CounterOnlyInSearch ==
    [][ /\ lookcount' # lookcount =>
              \E t \in Threads :
                  /\ pc[t] = "branch"
                  /\ pc'[t] # "branch"
                  /\ prob[t].free > 40
                  /\ detstatus = 0
        /\ \A t \in Threads :
              (pc[t] \in {"detect", "decide", "hit", "steer", "ret"}
                  /\ pc'[t] # pc[t])
              => lookcount' = lookcount
        /\ detstatus' # detstatus => lookcount' = lookcount
      ]_vars

\* a target is lost half way through a scan: the flag is cleared, the count
\* of 5 stays
C31_Witness ==
    \E t \in Threads :
        /\ pc[t] = "ret"
        /\ prob[t] = P(35, 35, 30)
        /\ entry[t].detstatus = 1
        /\ detstatus = 0
        /\ entry[t].lookcount = 5
        /\ lookcount = 5

\* the frame took the search branch / the blocked branch of the chain
SearchFrame(t) == prob[t].free > 40 /\ entry[t].detstatus = 0
BlockedFrame(t) == prob[t].free <= 40 /\ prob[t].blocked > 50

\* the last motor command of a log
LastCmd(l) == Cmds(l)[Len(Cmds(l))]

Kept == {i \in 1..Len(ssd.output) : ssd.output[i].conf >= ssd.conf_th}

\* the position in the output of the k-th record that reaches the threshold
KeptAt(k) == CHOOSE i \in Kept : Cardinality({j \in Kept : j <= i}) = k

\* C34: postprocess returns three lists of equal length holding exactly the
\* records whose confidence is >= conf_th, in input order: the k-th box,
\* confidence and class all come from the k-th such record, the box scaled to
\* pixels; records below the threshold appear in none of the lists.
C34_PostprocessKeepsConfident ==
    ssd.done =>
        /\ Len(ssd.boxes) = Cardinality(Kept)
        /\ Len(ssd.confs) = Cardinality(Kept)
        /\ Len(ssd.clss) = Cardinality(Kept)
        /\ \A k \in 1..Cardinality(Kept) :
              LET o == ssd.output[KeptAt(k)]
              IN  /\ ssd.confs[k] = o.conf
                  /\ ssd.clss[k] = o.cls
                  /\ ssd.boxes[k] =
                        << (o.box[1] * 300) \div 100, (o.box[2] * 300) \div 100,
                           (o.box[3] * 300) \div 100, (o.box[4] * 300) \div 100 >>

\* a record below the threshold between one at it and one above it
C34_Witness ==
    /\ ssd.done
    /\ ssd.conf_th = 30
    /\ ssd.output = << Raw(1, 30, Box3), Raw(37, 20, Box1), Raw(37, 90, Box2) >>
    /\ ssd.clss = <<1, 37>>
    /\ ssd.confs = <<30, 90>>
    /\ ssd.boxes = << <<270, 120, 300, 180>>, <<135, 135, 165, 165>> >>

====
